---- MODULE Spec2Model ----
(***************************************************************************)
(* Propulsion test bench controller (src/README.md, the Arduino sketch).  *)
(*                                                                         *)
(* Units.  Times are milliseconds of millis().  Mass readings are grams,   *)
(* thrust is milli-newton, impulse is micro-newton-second (mN * ms),       *)
(* burntime is milliseconds: these are the resolutions the sketch prints   *)
(* to the session file (thrust 3 dp, impulse 6 dp, burn time 3 dp), so a   *)
(* printed row is the tuple of these integers.  float division is modelled *)
(* by integer division.                                                    *)
(*                                                                         *)
(* One pass of loop() is one step, except that the pass in which the       *)
(* countdown reaches zero is cut at the ignition hold: the step ends with  *)
(* the output high (pc = "hold") and IgniteRelease finishes that pass.     *)
(***************************************************************************)
EXTENDS Integers, Sequences, FiniteSets, TLC

VARIABLES pc, clock, emPin, serial, hx_ini, scale, sdcard, sdfile, sdCalls,
          filename, known_weight, burnStartTime, burnEndTime, thrust,
          impulse, peakthrust, avgthrust, lastsampletime, burntime,
          previoustime, countdownTime, countdownstate, testInProgress,
          samplecount, sdOpenForWrite, lastSdFlush, lowThrustStart

vars == <<pc, clock, emPin, serial, hx_ini, scale, sdcard, sdfile, sdCalls,
          filename, known_weight, burnStartTime, burnEndTime, thrust,
          impulse, peakthrust, avgthrust, lastsampletime, burntime,
          previoustime, countdownTime, countdownstate, testInProgress,
          samplecount, sdOpenForWrite, lastSdFlush, lowThrustStart>>

----------------------------------------------------------------------------
(* Bounds of the model *)

\* millis() is followed up to this value (specification Spec)
MaxClock == 23000
\* millis() is followed up to this value (specification SpecLong)
MaxLongClock == 83000
\* samples accepted in one burn
MaxSamples == 4
\* largest index of a file already on the card at power-on (SpecBoot)
MaxPriorIndex == 5
\* millis() is followed up to this value (specification SpecCal)
MaxCalClock == 6000
\* millis() is followed up to this value (specification SpecLive)
MaxLiveClock == 420000

----------------------------------------------------------------------------
(* Program constants *)

COUNTDOWN_DEFAULT == 15
COUNTDOWN_PERIOD_MS == 1000
IGNITE_HOLD_MS == 2000
DEBOUNCE_MS == 50
LOOP_DELAY_MS == 10
HX_POLL_MS == 500
HX_TIMEOUT_MS == 5000
HALT_DELAY_MS == 1000
THRUST_THRESHOLD == 500
LOW_THRUST_DURATION == 3000
SAFETY_TIMEOUT_MS == 60000
SD_FLUSH_MS == 500

----------------------------------------------------------------------------
(* Inputs of the environment.  An environment names, for every input of *)
(* the sketch, the values the model draws it from:                        *)
(*   hxFails    failed is_ready() polls before the sensor answers         *)
(*              (10 = it never answers in time)                           *)
(*   sdOks      results of SD.begin                                       *)
(*   createOks  results of SD.open in createNewSDfile                     *)
(*   switches   start switch pressed (pin LOW) at a digitalRead           *)
(*   texts      operator's reference mass, as typed on the console        *)
(*   raws       averaged raw reading under the reference mass             *)
(*   calWaits   time the prompts and averaged reads of hxCalibrate take   *)
(*   masses     get_units(1) during the burn, in grams                    *)
(*   steps      duration of one pass of loop(), its delays included       *)
(*   stalls     duration of a pass whose get_units(1) blocks on a         *)
(*              stalled sensor                                            *)
(*   openOks    results of SD.open in igniteMotor                         *)
(*   openWaits  time SD.open takes in igniteMotor                         *)
(*   maxClock   bound on millis()                                         *)

\* every input varies, over a horizon of one test and the next trigger
Env ==
    [hxFails |-> {0, 10}, sdOks |-> BOOLEAN, createOks |-> BOOLEAN,
     switches |-> BOOLEAN, texts |-> {"abc", "-0.5", "0.5"},
     raws |-> {1000}, calWaits |-> {950}, masses |-> {-20, 20, 60},
     steps |-> {500, 1000}, stalls |-> {},
     openOks |-> BOOLEAN, openWaits |-> {0, 500}, maxClock |-> MaxClock]

\* the switch is held and passes take one second, a stalled sensor can block
\* a pass for 61 s, over a horizon of a timed-out burn and of a second test
EnvLong ==
    [hxFails |-> {0}, sdOks |-> {TRUE}, createOks |-> {TRUE},
     switches |-> {TRUE}, texts |-> {"0.5"},
     raws |-> {1000}, calWaits |-> {950}, masses |-> {20, 60},
     steps |-> {1000}, stalls |-> {61000},
     openOks |-> BOOLEAN, openWaits |-> {0, 500}, maxClock |-> MaxLongClock]

\* sets of file indexes present on the card at power-on (Spec, SpecLong)
\* the calibration runs: every sign of the averaged reading get_units(20)
\* returns after tare(), up to the first passes of the countdown
EnvCal == [hxFails |-> {0}, sdOks |-> {TRUE}, createOks |-> BOOLEAN,
           switches |-> BOOLEAN, texts |-> {"abc", "-0.5", "0.5"},
           raws |-> {-1000, 0, 1, 1000, 1500}, calWaits |-> {950},
           masses |-> {20}, steps |-> {500, 1000}, stalls |-> {},
           openOks |-> BOOLEAN, openWaits |-> {0}, maxClock |-> MaxCalClock]

\* the coarse runs: passes of 20.5 s, so that the 60 s of the
\* safety timeout pass within MaxSamples samples whatever the sensor reads;
\* the switch is held, so the countdown starts in the first pass
EnvLive == [hxFails |-> {0}, sdOks |-> {TRUE}, createOks |-> {TRUE},
            switches |-> {TRUE}, texts |-> {"0.5"},
            raws |-> {1000}, calWaits |-> {950}, masses |-> {-20, 20, 60},
            steps |-> {20500}, stalls |-> {},
            openOks |-> BOOLEAN, openWaits |-> {0, 500},
            maxClock |-> MaxLiveClock]

PriorSets == {{0, 1}}

----------------------------------------------------------------------------
(* Storage collaborator *)

NoName == <<>>
HeaderRow == [kind |-> "header"]
PriorRow == [kind |-> "prior"]

\* String(i) + "_PLT.csv"
FileName(i) == <<i, "_PLT.csv">>

SDExists(card, name) == name \in DOMAIN card

\* SD.open(name, FILE_WRITE): creates the file when absent, appends at end
SDOpen(card, name) ==
    IF name \in DOMAIN card THEN card
    ELSE [n \in DOMAIN card \cup {name} |->
             IF n = name THEN <<>> ELSE card[n]]

SDAppend(card, name, row) == [card EXCEPT ![name] = Append(@, row)]

PriorCard(idxs) == [n \in {FileName(i) : i \in idxs} |-> <<PriorRow>>]

----------------------------------------------------------------------------
(* The sketch's globals as one record, so that each function of the sketch *)
(* is an operator from globals to globals.                                 *)

G == [emPin |-> emPin, serial |-> serial, hx_ini |-> hx_ini, scale |-> scale,
      sdcard |-> sdcard, sdfile |-> sdfile, sdCalls |-> sdCalls,
      filename |-> filename, known_weight |-> known_weight,
      burnStartTime |-> burnStartTime, burnEndTime |-> burnEndTime,
      thrust |-> thrust, impulse |-> impulse, peakthrust |-> peakthrust,
      avgthrust |-> avgthrust, lastsampletime |-> lastsampletime,
      burntime |-> burntime, previoustime |-> previoustime,
      countdownTime |-> countdownTime, countdownstate |-> countdownstate,
      testInProgress |-> testInProgress, samplecount |-> samplecount,
      sdOpenForWrite |-> sdOpenForWrite, lastSdFlush |-> lastSdFlush,
      lowThrustStart |-> lowThrustStart]

Apply(g) ==
    /\ emPin' = g.emPin
    /\ serial' = g.serial
    /\ hx_ini' = g.hx_ini
    /\ scale' = g.scale
    /\ sdcard' = g.sdcard
    /\ sdfile' = g.sdfile
    /\ sdCalls' = g.sdCalls
    /\ filename' = g.filename
    /\ known_weight' = g.known_weight
    /\ burnStartTime' = g.burnStartTime
    /\ burnEndTime' = g.burnEndTime
    /\ thrust' = g.thrust
    /\ impulse' = g.impulse
    /\ peakthrust' = g.peakthrust
    /\ avgthrust' = g.avgthrust
    /\ lastsampletime' = g.lastsampletime
    /\ burntime' = g.burntime
    /\ previoustime' = g.previoustime
    /\ countdownTime' = g.countdownTime
    /\ countdownstate' = g.countdownstate
    /\ testInProgress' = g.testInProgress
    /\ samplecount' = g.samplecount
    /\ sdOpenForWrite' = g.sdOpenForWrite
    /\ lastSdFlush' = g.lastSdFlush
    /\ lowThrustStart' = g.lowThrustStart

Say(g, msg) == [g EXCEPT !.serial = Append(@, msg)]

----------------------------------------------------------------------------
(* setup() *)

\* the is_ready() polling loop of initializeHX711: t is millis() at the poll
RECURSIVE HxWait(_, _, _)
HxWait(t, startTime, fails) ==
    IF fails = 0 THEN [ready |-> TRUE, t |-> t]
    ELSE LET t2 == t + HX_POLL_MS
         IN  IF t2 - startTime > HX_TIMEOUT_MS
             THEN [ready |-> FALSE, t |-> t2]
             ELSE HxWait(t2, startTime, fails - 1)

\* createNewSDfile without the SD.exists probe
ProbeFilename_NoProbe(card, i) == i

\* the do-while of createNewSDfile: first index from i on whose name is unused
RECURSIVE ProbeFilename(_, _)
ProbeFilename(card, i) ==
    IF SDExists(card, FileName(i)) THEN ProbeFilename(card, i + 1) ELSE i

createNewSDfile(g, openOk) ==
    LET name == FileName(ProbeFilename(g.sdcard, 0))
        g1 == [g EXCEPT !.filename = name]
    IN  IF openOk
        THEN Say([g1 EXCEPT
                    !.sdcard = SDAppend(SDOpen(g.sdcard, name), name, HeaderRow)],
                 "Data file created")
        ELSE Say(g1, "Error: File couldn't be created")

SetupE(env) ==
    /\ pc = "setup"
    /\ \E fails \in env.hxFails, sdOk \in env.sdOks, createOk \in env.createOks :
         LET g0 == [G EXCEPT !.emPin = "LOW", !.serial = <<>>]
             w == HxWait(clock + HX_POLL_MS, clock, fails)
         IN  IF ~w.ready
             THEN /\ pc' = "halt_hx"
                  /\ clock' = w.t
                  /\ Apply(Say(g0, "HX711 failed to initialize"))
             ELSE LET g1 == Say([g0 EXCEPT !.hx_ini = TRUE], "HX711 initialized")
                  IN  IF ~sdOk
                      THEN /\ pc' = "halt_sd"
                           /\ clock' = w.t
                           /\ Apply(Say(g1, "SD card initialization FAILED"))
                      ELSE /\ pc' = "loop"
                           /\ clock' = w.t
                           /\ Apply(Say(createNewSDfile(
                                          Say(g1, "SD card initialized"), createOk),
                                        "System Ready"))

\* a halt whose while (1) is left, so that setup() returns and loop() runs
HaltLoop_Returns ==
    /\ pc \in {"halt_hx", "halt_sd"}
    /\ clock + HALT_DELAY_MS <= MaxClock
    /\ clock' = clock + HALT_DELAY_MS
    /\ pc' = "loop"
    /\ UNCHANGED <<emPin, serial, hx_ini, scale, sdcard, sdfile, sdCalls,
                   filename, known_weight, burnStartTime, burnEndTime, thrust,
                   impulse, peakthrust, avgthrust, lastsampletime, burntime,
                   previoustime, countdownTime, countdownstate, testInProgress,
                   samplecount, sdOpenForWrite, lastSdFlush, lowThrustStart>>

\* while (1) { delay(1000); } of the two fatal initialisation failures
HaltLoop ==
    /\ pc \in {"halt_hx", "halt_sd"}
    /\ clock + HALT_DELAY_MS <= MaxClock
    /\ clock' = clock + HALT_DELAY_MS
    /\ UNCHANGED <<pc, emPin, serial, hx_ini, scale, sdcard, sdfile, sdCalls,
                   filename, known_weight, burnStartTime, burnEndTime, thrust,
                   impulse, peakthrust, avgthrust, lastsampletime, burntime,
                   previoustime, countdownTime, countdownstate, testInProgress,
                   samplecount, sdOpenForWrite, lastSdFlush, lowThrustStart>>

----------------------------------------------------------------------------
(* Calibration and countdown *)

\* String::toFloat of the trimmed console line, in grams (0 when not a number)
ToFloat(text) ==
    CASE text = "0.5" -> 500
      [] text = "-0.5" -> -500
      [] OTHER -> 0

hxCalibrate(g, text, rawReading) ==
    IF ~g.hx_ini
    THEN Say(g, "HX711 not initialized. Aborting calibration.")
    ELSE LET g1 == [g EXCEPT !.known_weight = ToFloat(text)]
         IN  IF g1.known_weight <= 0
             THEN Say(g1, "Invalid weight entered. Calibration aborted.")
             ELSE Say([g1 EXCEPT
                         !.scale = (rawReading * 1000) \div g1.known_weight],
                      "Calibration done")

startCountdown(g, t) ==
    Say([g EXCEPT !.previoustime = t,
                  !.countdownstate = TRUE,
                  !.countdownTime = COUNTDOWN_DEFAULT],
        "Starting countdown sequence...")

\* countDown() that decrements on every pass, without the one-second test
countDown_EveryPass(g, t) ==
    IF g.countdownstate
    THEN LET g1 == Say([g EXCEPT !.previoustime = t,
                                 !.countdownTime = @ - 1], "T-")
         IN  IF g1.countdownTime <= 0
             THEN [g |-> [g1 EXCEPT !.countdownstate = FALSE], fire |-> TRUE]
             ELSE [g |-> g1, fire |-> FALSE]
    ELSE [g |-> g, fire |-> FALSE]

\* countDown() up to the call of igniteMotor; .fire says whether it is called
countDown(g, t) ==
    IF g.countdownstate /\ t - g.previoustime >= COUNTDOWN_PERIOD_MS
    THEN LET g1 == Say([g EXCEPT !.previoustime = t,
                                 !.countdownTime = @ - 1], "T-")
         IN  IF g1.countdownTime <= 0
             THEN [g |-> [g1 EXCEPT !.countdownstate = FALSE], fire |-> TRUE]
             ELSE [g |-> g1, fire |-> FALSE]
    ELSE [g |-> g, fire |-> FALSE]

----------------------------------------------------------------------------
(* Ignition, acquisition, burn monitor *)

\* igniteMotor() up to delay(2000): the output is driven high
igniteMotorAssert(g) == [Say(g, "IGNITION!") EXCEPT !.emPin = "HIGH"]

\* igniteMotor() that leaves the output high after the hold
igniteMotorStart_StaysHigh(g, t, openOk) ==
    LET g1 == [g EXCEPT !.testInProgress = TRUE,
                        !.burnStartTime = t,
                        !.lastsampletime = t,
                        !.samplecount = 0,
                        !.impulse = 0,
                        !.peakthrust = 0,
                        !.avgthrust = 0]
        g2 == IF openOk
              THEN [g1 EXCEPT !.sdcard = SDOpen(g1.sdcard, g1.filename),
                              !.sdfile = [valid |-> TRUE],
                              !.sdOpenForWrite = TRUE]
              ELSE Say([g1 EXCEPT !.sdfile = [valid |-> FALSE],
                                  !.sdOpenForWrite = FALSE],
                       "Warning: Unable to open SD file for writing. Logging disabled.")
    IN  Say(g2, "Data acquisition started...")

\* igniteMotor() after delay(2000); t is millis() when the hold is over
\* igniteMotor() that leaves peakthrust of the previous burn in place
igniteMotorStart_KeepsPeak(g, t, openOk) ==
    LET g1 == [g EXCEPT !.emPin = "LOW",
                        !.testInProgress = TRUE,
                        !.burnStartTime = t,
                        !.lastsampletime = t,
                        !.samplecount = 0,
                        !.impulse = 0,
                        !.avgthrust = 0]
        g2 == IF openOk
              THEN [g1 EXCEPT !.sdcard = SDOpen(g1.sdcard, g1.filename),
                              !.sdfile = [valid |-> TRUE],
                              !.sdOpenForWrite = TRUE]
              ELSE Say([g1 EXCEPT !.sdfile = [valid |-> FALSE],
                                  !.sdOpenForWrite = FALSE],
                       "Warning: Unable to open SD file for writing. Logging disabled.")
    IN  Say(g2, "Data acquisition started...")

igniteMotorStart(g, t, openOk) ==
    LET g1 == [g EXCEPT !.emPin = "LOW",
                        !.testInProgress = TRUE,
                        !.burnStartTime = t,
                        !.lastsampletime = t,
                        !.samplecount = 0,
                        !.impulse = 0,
                        !.peakthrust = 0,
                        !.avgthrust = 0]
        g2 == IF openOk
              THEN [g1 EXCEPT !.sdcard = SDOpen(g1.sdcard, g1.filename),
                              !.sdfile = [valid |-> TRUE],
                              !.sdOpenForWrite = TRUE]
              ELSE Say([g1 EXCEPT !.sdfile = [valid |-> FALSE],
                                  !.sdOpenForWrite = FALSE],
                       "Warning: Unable to open SD file for writing. Logging disabled.")
    IN  Say(g2, "Data acquisition started...")

\* mass_kg * 9.80665f with the negative clamp, grams to milli-newton
ThrustOf(mass) ==
    LET m == IF mass < 0 THEN 0 ELSE mass
    IN  (m * 980665) \div 100000

\* the six print calls that make one data row
FilePrintRow(g, row) ==
    [g EXCEPT !.sdcard = IF g.sdfile.valid
                         THEN SDAppend(g.sdcard, g.filename, row)
                         ELSE @,
              !.sdCalls.print = @ + 1]

FileFlush(g) == [g EXCEPT !.sdCalls.flush = @ + 1]

FileClose(g) == [g EXCEPT !.sdfile = [valid |-> FALSE],
                          !.sdCalls.close = @ + 1]

\* acquireData() that prints the row without testing sdOpenForWrite
acquireData_AlwaysPrints(g, now, mass) ==
    LET dt == now - g.lastsampletime
    IN  IF dt <= 0 THEN g
        ELSE
          LET th == ThrustOf(mass)
              n == g.samplecount + 1
              g1 == [g EXCEPT !.thrust = th,
                              !.impulse = @ + th * dt,
                              !.peakthrust = IF th > @ THEN th ELSE @,
                              !.samplecount = n,
                              !.avgthrust = @ + ((th - @) \div n),
                              !.lastsampletime = now,
                              !.burntime = now - g.burnStartTime]
              row == [kind |-> "data",
                      elapsed |-> now - g1.burnStartTime,
                      thrust |-> g1.thrust,
                      impulse |-> g1.impulse,
                      avgthrust |-> g1.avgthrust,
                      peakthrust |-> g1.peakthrust,
                      burntime |-> g1.burntime]
              g2 == FilePrintRow(g1, row)
          IN  IF now - g2.lastSdFlush > SD_FLUSH_MS
              THEN [FileFlush(g2) EXCEPT !.lastSdFlush = now]
              ELSE g2

\* acquireData() that adds the thrust to the impulse without the factor dt
acquireData_NoDt(g, now, mass) ==
    LET dt == now - g.lastsampletime
    IN  IF dt <= 0 THEN g
        ELSE
          LET th == ThrustOf(mass)
              n == g.samplecount + 1
              g1 == [g EXCEPT !.thrust = th,
                              !.impulse = @ + th,
                              !.peakthrust = IF th > @ THEN th ELSE @,
                              !.samplecount = n,
                              !.avgthrust = @ + ((th - @) \div n),
                              !.lastsampletime = now,
                              !.burntime = now - g.burnStartTime]
              row == [kind |-> "data",
                      elapsed |-> now - g1.burnStartTime,
                      thrust |-> g1.thrust,
                      impulse |-> g1.impulse,
                      avgthrust |-> g1.avgthrust,
                      peakthrust |-> g1.peakthrust,
                      burntime |-> g1.burntime]
          IN  IF g1.sdOpenForWrite
              THEN LET g2 == FilePrintRow(g1, row)
                   IN  IF now - g2.lastSdFlush > SD_FLUSH_MS
                       THEN [FileFlush(g2) EXCEPT !.lastSdFlush = now]
                       ELSE g2
              ELSE g1

\* acquireData() that flushes after every row, without the 500 ms test
acquireData_AlwaysFlushes(g, now, mass) ==
    LET dt == now - g.lastsampletime
    IN  IF dt <= 0 THEN g
        ELSE
          LET th == ThrustOf(mass)
              n == g.samplecount + 1
              g1 == [g EXCEPT !.thrust = th,
                              !.impulse = @ + th * dt,
                              !.peakthrust = IF th > @ THEN th ELSE @,
                              !.samplecount = n,
                              !.avgthrust = @ + ((th - @) \div n),
                              !.lastsampletime = now,
                              !.burntime = now - g.burnStartTime]
              row == [kind |-> "data",
                      elapsed |-> now - g1.burnStartTime,
                      thrust |-> g1.thrust,
                      impulse |-> g1.impulse,
                      avgthrust |-> g1.avgthrust,
                      peakthrust |-> g1.peakthrust,
                      burntime |-> g1.burntime]
          IN  IF g1.sdOpenForWrite
              THEN [FileFlush(FilePrintRow(g1, row)) EXCEPT !.lastSdFlush = now]
              ELSE g1

\* acquireData() without the early return on dt <= 0
acquireData_NoSkip(g, now, mass) ==
    LET dt == now - g.lastsampletime
        th == ThrustOf(mass)
        n == g.samplecount + 1
        g1 == [g EXCEPT !.thrust = th,
                        !.impulse = @ + th * dt,
                        !.peakthrust = IF th > @ THEN th ELSE @,
                        !.samplecount = n,
                        !.avgthrust = @ + ((th - @) \div n),
                        !.lastsampletime = now,
                        !.burntime = now - g.burnStartTime]
        row == [kind |-> "data",
                elapsed |-> now - g1.burnStartTime,
                thrust |-> g1.thrust,
                impulse |-> g1.impulse,
                avgthrust |-> g1.avgthrust,
                peakthrust |-> g1.peakthrust,
                burntime |-> g1.burntime]
    IN  IF g1.sdOpenForWrite
        THEN LET g2 == FilePrintRow(g1, row)
             IN  IF now - g2.lastSdFlush > SD_FLUSH_MS
                 THEN [FileFlush(g2) EXCEPT !.lastSdFlush = now]
                 ELSE g2
        ELSE g1

\* acquireData() that never updates burntime
acquireData_NoBurntime(g, now, mass) ==
    LET dt == now - g.lastsampletime
    IN  IF dt <= 0 THEN g
        ELSE
          LET th == ThrustOf(mass)
              n == g.samplecount + 1
              g1 == [g EXCEPT !.thrust = th,
                              !.impulse = @ + th * dt,
                              !.peakthrust = IF th > @ THEN th ELSE @,
                              !.samplecount = n,
                              !.avgthrust = @ + ((th - @) \div n),
                              !.lastsampletime = now]
              row == [kind |-> "data",
                      elapsed |-> now - g1.burnStartTime,
                      thrust |-> g1.thrust,
                      impulse |-> g1.impulse,
                      avgthrust |-> g1.avgthrust,
                      peakthrust |-> g1.peakthrust,
                      burntime |-> g1.burntime]
          IN  IF g1.sdOpenForWrite
              THEN LET g2 == FilePrintRow(g1, row)
                   IN  IF now - g2.lastSdFlush > SD_FLUSH_MS
                       THEN [FileFlush(g2) EXCEPT !.lastSdFlush = now]
                       ELSE g2
              ELSE g1

acquireData(g, now, mass) ==
    LET dt == now - g.lastsampletime
    IN  IF dt <= 0 THEN g
        ELSE
          LET th == ThrustOf(mass)
              n == g.samplecount + 1
              g1 == [g EXCEPT !.thrust = th,
                              !.impulse = @ + th * dt,
                              !.peakthrust = IF th > @ THEN th ELSE @,
                              !.samplecount = n,
                              !.avgthrust = @ + ((th - @) \div n),
                              !.lastsampletime = now,
                              !.burntime = now - g.burnStartTime]
              row == [kind |-> "data",
                      elapsed |-> now - g1.burnStartTime,
                      thrust |-> g1.thrust,
                      impulse |-> g1.impulse,
                      avgthrust |-> g1.avgthrust,
                      peakthrust |-> g1.peakthrust,
                      burntime |-> g1.burntime]
          IN  IF g1.sdOpenForWrite
              THEN LET g2 == FilePrintRow(g1, row)
                   IN  IF now - g2.lastSdFlush > SD_FLUSH_MS
                       THEN [FileFlush(g2) EXCEPT !.lastSdFlush = now]
                       ELSE g2
              ELSE g1

\* endBurn() without the early return on !testInProgress
endBurn_NoGuard(g, t) ==
    LET g1 == [g EXCEPT !.testInProgress = FALSE,
                        !.burnEndTime = t,
                        !.burntime = t - g.burnStartTime,
                        !.emPin = "LOW"]
        g2 == IF g1.sdOpenForWrite
              THEN [FileClose(FileFlush(g1)) EXCEPT !.sdOpenForWrite = FALSE]
              ELSE g1
    IN  Say(g2, "=== BURN COMPLETE ===")

endBurn(g, t) ==
    IF ~g.testInProgress THEN g
    ELSE
      LET g1 == [g EXCEPT !.testInProgress = FALSE,
                          !.burnEndTime = t,
                          !.burntime = t - g.burnStartTime,
                          !.emPin = "LOW"]
          g2 == IF g1.sdOpenForWrite
                THEN [FileClose(FileFlush(g1)) EXCEPT !.sdOpenForWrite = FALSE]
                ELSE g1
      IN  Say(g2, "=== BURN COMPLETE ===")

\* checkBurnComplete() without the safety timeout
checkBurnComplete_NoTimeout(g, t) ==
    IF g.thrust < THRUST_THRESHOLD
    THEN IF g.lowThrustStart = 0
         THEN [g EXCEPT !.lowThrustStart = t]
         ELSE IF t - g.lowThrustStart > LOW_THRUST_DURATION
              THEN endBurn(g, t)
              ELSE g
    ELSE [g EXCEPT !.lowThrustStart = 0]

checkBurnComplete(g, t) ==
    LET g1 == IF g.thrust < THRUST_THRESHOLD
              THEN IF g.lowThrustStart = 0
                   THEN [g EXCEPT !.lowThrustStart = t]
                   ELSE IF t - g.lowThrustStart > LOW_THRUST_DURATION
                        THEN endBurn(g, t)
                        ELSE g
              ELSE [g EXCEPT !.lowThrustStart = 0]
    IN  IF g1.burntime > SAFETY_TIMEOUT_MS
        THEN endBurn(Say(g1, "Safety timeout reached!"), t)
        ELSE g1

\* if (testInProgress) { acquireData(); checkBurnComplete(); }
acquireAndCheck(g, t, mass) ==
    IF g.testInProgress
    THEN checkBurnComplete(acquireData(g, t, mass), t)
    ELSE g

\* whether this pass reads the sensor in acquireData
ReadsSensor(g, t) == g.testInProgress /\ t - g.lastsampletime > 0

PassSteps(env, g, t) ==
    IF ReadsSensor(g, t) THEN env.steps \cup env.stalls ELSE env.steps

PassMasses(env, g, t) == IF ReadsSensor(g, t) THEN env.masses ELSE {0}

----------------------------------------------------------------------------
(* loop() *)

LoopPassE(env) ==
    /\ pc = "loop"
    /\ \E sw1 \in env.switches :
       LET g0 == [G EXCEPT !.serial = <<>>]
           trig == sw1 /\ ~g0.countdownstate /\ ~g0.testInProgress
       IN
       \E sw2 \in IF trig THEN env.switches ELSE {FALSE} :
       LET start == trig /\ sw2
       IN
       \E text \in IF start THEN env.texts ELSE {""},
          rawReading \in IF start THEN env.raws ELSE {0},
          wait \in IF start THEN env.calWaits ELSE {0} :
         LET t == IF start THEN clock + DEBOUNCE_MS + wait
                  ELSE IF trig THEN clock + DEBOUNCE_MS
                  ELSE clock
             g1 == IF start
                   THEN startCountdown(
                          hxCalibrate(Say(g0, "=== TEST SEQUENCE INITIATED ==="),
                                      text, rawReading), t)
                   ELSE g0
             cd == countDown(g1, t)
         IN  IF cd.fire
             THEN /\ pc' = "hold"
                  /\ clock' = t
                  /\ Apply(igniteMotorAssert(cd.g))
             ELSE \E mass \in PassMasses(env, cd.g, t),
                     d \in PassSteps(env, cd.g, t) :
                    LET g3 == acquireAndCheck(cd.g, t, mass)
                        end == IF start THEN t + d ELSE clock + d
                    IN  /\ d >= LOOP_DELAY_MS + (IF trig THEN DEBOUNCE_MS ELSE 0)
                        /\ g3.samplecount <= MaxSamples
                        /\ end <= env.maxClock
                        /\ pc' = "loop"
                        /\ clock' = end
                        /\ Apply(g3)

\* the rest of the pass that called igniteMotor
IgniteReleaseE(env) ==
    /\ pc = "hold"
    /\ \E openOk \in env.openOks, e \in env.openWaits :
         LET t == clock + IGNITE_HOLD_MS
             g1 == igniteMotorStart(G, t, openOk)
             now == t + e
         IN  \E mass \in PassMasses(env, g1, now), d \in PassSteps(env, g1, now) :
               LET g2 == acquireAndCheck(g1, now, mass)
               IN  /\ d >= LOOP_DELAY_MS
                   /\ now + d <= env.maxClock
                   /\ pc' = "loop"
                   /\ clock' = now + d
                   /\ Apply(g2)

Setup == SetupE(Env)
LoopPass == LoopPassE(Env)
IgniteRelease == IgniteReleaseE(Env)

SetupLong == SetupE(EnvLong)
LoopPassLong == LoopPassE(EnvLong)
IgniteReleaseLong == IgniteReleaseE(EnvLong)

----------------------------------------------------------------------------
(* Specifications *)

InitGlobals ==
    /\ pc = "setup"
    /\ clock = 0
    /\ emPin = "LOW"
    /\ serial = <<>>
    /\ hx_ini = FALSE
    /\ scale = 1
    /\ sdfile = [valid |-> FALSE]
    /\ sdCalls = [print |-> 0, flush |-> 0, close |-> 0]
    /\ filename = NoName
    /\ known_weight = 0
    /\ burnStartTime = 0
    /\ burnEndTime = 0
    /\ thrust = 0
    /\ impulse = 0
    /\ peakthrust = 0
    /\ avgthrust = 0
    /\ lastsampletime = 0
    /\ burntime = 0
    /\ previoustime = 0
    /\ countdownTime = COUNTDOWN_DEFAULT
    /\ countdownstate = FALSE
    /\ testInProgress = FALSE
    /\ samplecount = 0
    /\ sdOpenForWrite = FALSE
    /\ lastSdFlush = 0
    /\ lowThrustStart = 0

Init ==
    /\ InitGlobals
    /\ \E idxs \in PriorSets : sdcard = PriorCard(idxs)

Next == Setup \/ HaltLoop \/ LoopPass \/ IgniteRelease

Spec == Init /\ [][Next]_vars

SetupCal == SetupE(EnvCal)
LoopPassCal == LoopPassE(EnvCal)

NextCal == SetupCal \/ LoopPassCal

\* power-on, calibration and the first seconds of the countdown
SpecCal == Init /\ [][NextCal]_vars

SetupLive == SetupE(EnvLive)
LoopPassLive == LoopPassE(EnvLive)
IgniteReleaseLive == IgniteReleaseE(EnvLive)

NextLive == SetupLive \/ LoopPassLive \/ IgniteReleaseLive

\* the Arduino core calls loop() again whenever it returns, and every pass
\* returns: the step the program is at (setup, a pass, the release of the
\* igniter; never two of them at once) is taken when it can be
SpecLive == Init /\ [][NextLive]_vars /\ WF_vars(NextLive)

\* power-on over every set of files the card may hold
InitBoot ==
    /\ InitGlobals
    /\ \E idxs \in SUBSET (0..MaxPriorIndex) : sdcard = PriorCard(idxs)

NextBoot == Setup

SpecBoot == InitBoot /\ [][NextBoot]_vars

NextLong == SetupLong \/ LoopPassLong \/ IgniteReleaseLong

SpecLong == Init /\ [][NextLong]_vars

----------------------------------------------------------------------------
(* Properties *)

\* msg was printed on the console during the last step
Said(msg) == \E i \in DOMAIN serial : serial[i] = msg

\* the file of this session was opened for the burn and closed by endBurn
SessionClosed == sdCalls.close > 0 /\ ~sdfile.valid

\* a burn is running without a session file
Degraded == testInProgress /\ ~sdOpenForWrite

DataRows(rows) == SelectSeq(rows, LAMBDA r : r.kind = "data")

\* names of the files that were on the card at power-on
PriorNames == {n \in DOMAIN sdcard : sdcard[n] # <<>> /\ sdcard[n][1] = PriorRow}

\* C1: the igniter output is high only inside the 2 s hold of igniteMotor;
\* it is low in setup, in both halt loops, before and during the countdown,
\* while acquiring and after endBurn.
C1_IgniterHighOnlyInHold ==
    emPin = "HIGH" => (pc = "hold" /\ ~testInProgress /\ ~countdownstate)

C1_Witness == pc = "hold" /\ emPin = "HIGH"

\* C2: when calibration fails (reference mass not a number or <= 0) the
\* countdown is not started: the sequencer stays in PreIgnition.
C2_FailedCalibrationStaysPreIgnition ==
    Said("Invalid weight entered. Calibration aborted.") => ~countdownstate

\* C3: once endBurn has run, no countdown or burn runs again, the igniter
\* stays low and the session file stays closed.
C3_CompleteIsTerminal ==
    burnEndTime # 0 =>
        (~countdownstate /\ ~testInProgress /\ emPin = "LOW" /\ ~sdOpenForWrite)

\* C4: while acquiring, a burn that is still running at the end of a tick has
\* a continuous low-thrust run shorter than 3000 ms: the monitor ends the burn
\* as soon as the run, measured from the tick that started it, reaches 3000 ms.
C4_LowThrustEndsAt3000 ==
    (testInProgress /\ thrust < THRUST_THRESHOLD /\ lowThrustStart # 0) =>
        lastsampletime - lowThrustStart < LOW_THRUST_DURATION

\* C5: whenever burntime exceeds 60 s at the end of a pass, the burn has been
\* ended: testInProgress is false, the igniter is low and the file is closed,
\* whatever the thrust and the low-thrust timer.
C5_SafetyTimeoutEndsBurn ==
    (pc = "loop" /\ burntime > SAFETY_TIMEOUT_MS) =>
        (~testInProgress /\ emPin = "LOW" /\ ~sdOpenForWrite /\ ~sdfile.valid)

C5_Witness ==
    /\ Said("Safety timeout reached!")
    /\ Said("=== BURN COMPLETE ===")
    /\ serial[1] = "Safety timeout reached!"
    /\ thrust >= THRUST_THRESHOLD
    /\ burntime > SAFETY_TIMEOUT_MS

\* C6: endBurn is idempotent.  In a step in which endBurn ran, it ran its body
\* once (one summary, at most one close), the igniter is low and the file is
\* closed afterwards, and any further endBurn signal leaves every global as
\* the first call left it.
C6_EndBurnIdempotent ==
    [][Said("=== BURN COMPLETE ===")' =>
         /\ Cardinality({i \in DOMAIN serial' :
                           serial'[i] = "=== BURN COMPLETE ==="}) = 1
         /\ sdCalls'.close - sdCalls.close <= 1
         /\ emPin' = "LOW"
         /\ ~sdOpenForWrite'
         /\ ~sdfile'.valid
         /\ \A t \in {clock', clock' + 1} : endBurn(G', t) = G']_vars

\* the low-thrust rule ended the burn and the safety timeout signalled again
C6_Witness ==
    /\ serial = <<"=== BURN COMPLETE ===", "Safety timeout reached!">>
    /\ sdCalls.close = 1

\* C7: after endBurn closed the session file, no step changes the contents of
\* the card or opens the file for writing again.
C7_NoWriteAfterClose ==
    [][SessionClosed => (sdcard' = sdcard /\ ~sdOpenForWrite')]_vars

\* C8: the data rows of every file are in strictly increasing elapsed order.
C8_RowsStrictlyIncreasing ==
    \A n \in DOMAIN sdcard :
        LET rows == DataRows(sdcard[n])
        IN  \A i \in 1..(Len(rows) - 1) : rows[i].elapsed < rows[i + 1].elapsed

\* C9: createNewSDfile chooses the smallest index whose name is not on the
\* card; the name is not that of a file already present and the files already
\* present keep their contents.
C9_FilenameSmallestUnused ==
    filename # NoName =>
        /\ filename \notin PriorNames
        /\ \A j \in 0..(filename[1] - 1) : FileName(j) \in PriorNames
        /\ \A n \in PriorNames : sdcard[n] = <<PriorRow>>

C9_Witness ==
    /\ PriorNames = {FileName(0), FileName(1)}
    /\ filename = FileName(2)
    /\ FileName(2) \in DOMAIN sdcard

\* C10: a burn whose file could not be opened still runs: ignition with a
\* failed open enters the burn, every pass of a degraded burn accepts its
\* sample into thrust, impulse, peak, average and count, issues no print,
\* flush or close and leaves the card alone, and the low-thrust rule and the
\* safety timeout still end it with the igniter low.
C10_DegradedBurnRuns ==
    [][/\ (pc = "hold" /\ Said("Warning: Unable to open SD file for writing. Logging disabled.")')
            => (testInProgress' \/ Said("=== BURN COMPLETE ===")')
       /\ (pc = "loop" /\ Degraded) =>
            /\ samplecount' = samplecount + 1
            /\ lastsampletime' = clock
            /\ impulse' = impulse + thrust' * (clock - lastsampletime)
            /\ peakthrust' = (IF thrust' > peakthrust THEN thrust' ELSE peakthrust)
            /\ avgthrust' = avgthrust + ((thrust' - avgthrust) \div samplecount')
            /\ sdCalls' = sdCalls
            /\ sdcard' = sdcard
            /\ emPin' = "LOW"
            /\ ((thrust' < THRUST_THRESHOLD /\ lowThrustStart # 0
                    /\ clock - lowThrustStart > LOW_THRUST_DURATION)
                  => ~testInProgress')
            /\ (clock - burnStartTime > SAFETY_TIMEOUT_MS => ~testInProgress')]_vars

\* a degraded burn ended by the monitor
C10_Witness ==
    /\ burnEndTime # 0
    /\ ~testInProgress
    /\ samplecount > 0
    /\ sdCalls = [print |-> 0, flush |-> 0, close |-> 0]
    /\ emPin = "LOW"

\* C11: a fatal initialisation failure (sensor not ready within the bounded
\* wait, or SD.begin failing) halts for good: the halt state is never left,
\* loop() never runs, no countdown or burn starts and the igniter stays low.
C11_FatalInitHalts ==
    [][/\ pc \in {"halt_hx", "halt_sd"} => pc' = pc
       /\ pc' \in {"halt_hx", "halt_sd"} =>
            /\ emPin' = "LOW"
            /\ ~countdownstate'
            /\ ~testInProgress'
            /\ burnStartTime' = 0
            /\ filename' = NoName
       /\ pc' = "halt_hx" => (~hx_ini' /\ clock' > HX_TIMEOUT_MS)]_vars

\* the sensor never answered and the halt loop has gone round
C11_Witness ==
    pc = "halt_hx" /\ clock >= HX_TIMEOUT_MS + HX_POLL_MS + 2 * HALT_DELAY_MS

\* C12: while armed, a pass decrements the counter exactly when at least
\* 1000 ms have passed since the last decrement (or the start), whatever the
\* switch reads; the counter starts at 15, igniteMotor is called exactly when
\* it reaches zero, and previoustime + 1000 * countdownTime never decreases, so
\* the igniter is asserted no earlier than 15000 ms after the countdown start.
C12_CountdownTiming ==
    [][/\ countdownstate' => (countdownTime' \in 1..COUNTDOWN_DEFAULT /\ pc' = "loop")
       /\ (~countdownstate /\ countdownstate') =>
            /\ countdownTime' = COUNTDOWN_DEFAULT
            /\ previoustime' >= clock + DEBOUNCE_MS
            /\ previoustime' <= clock'
       /\ countdownstate =>
            /\ IF clock - previoustime >= COUNTDOWN_PERIOD_MS
               THEN countdownTime' = countdownTime - 1 /\ previoustime' = clock
               ELSE countdownTime' = countdownTime /\ previoustime' = previoustime
            /\ previoustime' + COUNTDOWN_PERIOD_MS * countdownTime'
                 >= previoustime + COUNTDOWN_PERIOD_MS * countdownTime
            /\ (countdownTime' = 0) = (pc' = "hold")
            /\ (countdownTime' = 0) = ~countdownstate'
            /\ (countdownTime' = 0) = (emPin' = "HIGH")
       /\ pc' = "hold" => (countdownstate /\ pc = "loop" /\ clock' = previoustime')]_vars

\* ignition after a countdown in which some pass came too early to decrement
C12_Witness ==
    /\ pc = "hold"
    /\ countdownTime = 0
    /\ clock > HX_POLL_MS + DEBOUNCE_MS + 950 + COUNTDOWN_DEFAULT * COUNTDOWN_PERIOD_MS

\* the state of the sequencer: PreIgnition 0, Armed 1, Igniting 2,
\* Acquiring 3, Complete/Abort 4
Phase ==
    IF pc = "hold" THEN 2
    ELSE IF testInProgress THEN 3
    ELSE IF countdownstate THEN 1
    ELSE IF burnEndTime # 0 THEN 4
    ELSE 0

\* a pass that takes the sequencer out of Armed without asserting the igniter
AbortStep == NextLong /\ ~countdownstate' /\ pc' # "hold"

\* C13: Abort is reachable from Armed without the igniter being asserted (some
\* pass can stop a running countdown short of igniteMotor), and every other
\* transition moves forward through PreIgnition, Armed, Igniting, Acquiring,
\* Complete/Abort: no step goes back to an earlier state.
C13_AbortReachableElseForward ==
    /\ [](countdownstate => ENABLED AbortStep)
    /\ [][Phase' >= Phase]_vars

\* C14: whenever hxCalibrate has applied a scale factor (set_scale called,
\* "Calibration done" printed), the factor is rawReading / known_weight for a
\* reading the sensor can return, and it is greater than zero.
C14_ScaleFactorPositive ==
    Said("Calibration done") =>
        /\ known_weight > 0
        /\ \E rawReading \in EnvCal.raws :
              scale = (rawReading * 1000) \div known_weight
        /\ scale > 0

\* the data rows the running burn has written to its file, oldest first
CurrentRows ==
    LET all == DataRows(sdcard[filename])
    IN  SubSeq(all, Len(all) - samplecount + 1, Len(all))

RECURSIVE ImpulseSum(_, _)
\* sum over i <= k of thrust_i * dt_i, dt_i being the time since the sample
\* before (since ignition for the first)
ImpulseSum(rows, k) ==
    IF k = 0 THEN 0
    ELSE ImpulseSum(rows, k - 1)
         + rows[k].thrust
           * (rows[k].elapsed - (IF k = 1 THEN 0 ELSE rows[k - 1].elapsed))

RECURSIVE MaxThrust(_, _)
\* max(thrust_1 .. thrust_k), 0 for k = 0
MaxThrust(rows, k) ==
    IF k = 0 THEN 0
    ELSE LET m == MaxThrust(rows, k - 1)
         IN  IF rows[k].thrust > m THEN rows[k].thrust ELSE m

\* C15: the impulse is 0 at ignition, every accepted sample adds thrust * dt
\* with a thrust that is never negative, nothing else changes it, so it never
\* decreases during a burn; and in the file of the running burn the impulse of
\* the k-th row is the sum over i <= k of thrust_i * dt_i.
C15_ImpulseIsRunningSum ==
    [][/\ thrust' >= 0
       /\ IF pc = "hold"
          THEN /\ samplecount' \in {0, 1}
               /\ impulse' = IF samplecount' = 1
                             THEN thrust' * (lastsampletime' - burnStartTime')
                             ELSE 0
          ELSE IF samplecount' = samplecount + 1
          THEN /\ lastsampletime' > lastsampletime
               /\ impulse' = impulse + thrust' * (lastsampletime' - lastsampletime)
               /\ impulse' >= impulse
          ELSE /\ samplecount' = samplecount
               /\ impulse' = impulse
       /\ sdOpenForWrite' =>
            LET cur == CurrentRows'
            IN  /\ Len(cur) = samplecount'
                /\ \A k \in 1..Len(cur) :
                      /\ cur[k].thrust >= 0
                      /\ cur[k].impulse = ImpulseSum(cur, k)
                      /\ k > 1 => cur[k].impulse >= cur[k - 1].impulse
                /\ impulse' = ImpulseSum(cur, Len(cur))]_vars

\* three samples in the file, the last one with a reading clamped to zero
\* after thrust had been produced
C15_Witness ==
    /\ sdOpenForWrite
    /\ samplecount = 3
    /\ thrust = 0
    /\ impulse > 0

\* C16: peakthrust is 0 at ignition, after every accepted sample it is the
\* larger of its old value and the new thrust, nothing else changes it; in
\* the file of the running burn the peak of the k-th row is
\* max(thrust_1..thrust_k) of this burn's rows, and peakthrust is that maximum
\* over all of them, whatever an earlier burn recorded.
C16_PeakIsMaxOfBurn ==
    [][/\ IF pc = "hold"
          THEN peakthrust' = IF samplecount' = 1 THEN thrust' ELSE 0
          ELSE IF samplecount' = samplecount + 1
          THEN /\ peakthrust' = IF thrust' > peakthrust THEN thrust' ELSE peakthrust
               /\ peakthrust' >= peakthrust
          ELSE peakthrust' = peakthrust
       /\ sdOpenForWrite' =>
            LET cur == CurrentRows'
            IN  /\ \A k \in 1..Len(cur) :
                      /\ cur[k].peakthrust = MaxThrust(cur, k)
                      /\ peakthrust' >= cur[k].thrust
                /\ peakthrust' = MaxThrust(cur, Len(cur))]_vars

\* a later burn has been ignited with the peak back at 0 while the file still
\* holds the positive thrust of an earlier burn
C16_Witness ==
    /\ burnEndTime # 0
    /\ samplecount = 0
    /\ peakthrust = 0
    /\ \E k \in 1..Len(sdcard[filename]) :
          /\ sdcard[filename][k].kind = "data"
          /\ sdcard[filename][k].thrust > 0

\* flushes issued by acquireData in a step: all flushes but the one endBurn
\* issues right before its close
AcquireFlushes(before, after) ==
    (after.flush - before.flush) - (after.close - before.close)

\* C17: acquireData flushes at most once per pass, only in a pass that also
\* wrote a row, and only when more than 500 ms (so at least 500 ms) have passed
\* since its previous flush, whose time lastSdFlush keeps; the flush of endBurn
\* before the close is outside the limit.
C17_FlushRateLimited ==
    [][LET af == AcquireFlushes(sdCalls, sdCalls')
       IN  /\ af \in {0, 1}
           /\ af = 1 =>
                /\ sdCalls'.print = sdCalls.print + 1
                /\ samplecount' \in {1, samplecount + 1}
                /\ lastSdFlush' = lastsampletime'
                /\ lastSdFlush' - lastSdFlush > SD_FLUSH_MS
           /\ af = 0 => lastSdFlush' = lastSdFlush]_vars

\* three rows written in the running burn, one of them without a flush
C17_Witness ==
    /\ sdOpenForWrite
    /\ sdCalls.print = 3
    /\ sdCalls.flush = 2
    /\ lastsampletime - lastSdFlush = 500

\* the data rows of file name on the card, none when there is no such file
RowsOnCard(card, name) ==
    IF name \in DOMAIN card THEN DataRows(card[name]) ELSE <<>>

\* C18: a tick of acquireData with dt = 0 skips the sample.  The pass that
\* ignites reaches acquireData with now = lastsampletime when SD.open takes no
\* time: it then leaves thrust as it was, the accumulators and the sample
\* count at the values igniteMotor gave them, lastsampletime and burntime
\* alone, and prints no row; and in every state of a burn, acquireData called
\* again at the time of the last sample returns the state unchanged, whatever
\* the sensor would have read.
C18_ZeroDtSkipsSample ==
    [][/\ (pc = "hold" /\ lastsampletime' = burnStartTime') =>
            /\ samplecount' = 0
            /\ thrust' = thrust
            /\ impulse' = 0
            /\ peakthrust' = 0
            /\ avgthrust' = 0
            /\ testInProgress' => burntime' = burntime
            /\ sdCalls'.print = sdCalls.print
            /\ sdCalls'.flush - sdCalls'.close = sdCalls.flush - sdCalls.close
            /\ RowsOnCard(sdcard', filename') = RowsOnCard(sdcard, filename)
       /\ testInProgress' =>
            \A mass \in Env.masses :
               acquireData(G', lastsampletime', mass) = G']_vars

\* the burn has started, its first tick came with dt = 0 (checkBurnComplete
\* noted the low thrust at the ignition time) and no sample was taken
C18_Witness ==
    /\ testInProgress
    /\ samplecount = 0
    /\ lastsampletime = burnStartTime
    /\ lowThrustStart = burnStartTime
    /\ clock > burnStartTime

\* C19: a file that holds data rows starts with the header, holds it once,
\* and holds nothing else but data rows; and when endBurn has just closed the
\* session file, the file holds as many data rows as samples were accepted.
C19_HeaderThenOneRowPerSample ==
    /\ \A name \in DOMAIN sdcard :
          LET rows == sdcard[name]
          IN  DataRows(rows) # <<>> =>
                /\ rows[1] = HeaderRow
                /\ \A k \in 2..Len(rows) : rows[k].kind = "data"
    /\ (Said("=== BURN COMPLETE ===") /\ SessionClosed) =>
          Len(RowsOnCard(sdcard, filename)) = samplecount

\* C20: every burn terminates: once testInProgress is set, with loop() called
\* again and again and millis() advancing, a state follows in which
\* testInProgress is false, the file is closed and the igniter is low,
\* whatever the sensor reads, readings that stay above the threshold included.
C20_BurnTerminates ==
    testInProgress ~> (/\ ~testInProgress
                       /\ ~sdOpenForWrite
                       /\ emPin = "LOW"
                       /\ burnEndTime >= burnStartTime)

\* a burn whose every reading was above the threshold has ended
C20_Witness ==
    /\ ~testInProgress
    /\ burnEndTime > burnStartTime
    /\ samplecount >= 3
    /\ peakthrust >= THRUST_THRESHOLD
    /\ avgthrust = peakthrust

====
